---- MODULE Spec2Model ----
(***************************************************************************)
(* Model of src/src/index.ts: the page script of the face-tracking example *)
(* (top-level script, permission promise, visibility bindings, resize      *)
(* listener, recorder toggle, render loop with the face geometry) as tasks *)
(* of the single-threaded JavaScript event loop.  A task runs to           *)
(* completion unless it awaits; library calls whose outcome the script     *)
(* does not control (the permission answer, the tracker's events and       *)
(* samples, the recorder's callbacks, a throwing geometry update) are      *)
(* inputs chosen nondeterministically.                                     *)
(***************************************************************************)
EXTENDS Naturals, Sequences, FiniteSets

VARIABLES
    incompatible,   \* ZapparThree.browserIncompatible() (line 17)
    incompatUI,     \* browserIncompatibleUI() was shown (line 21)
    mainPc,         \* position of the top-level script
    perm,           \* permissionRequestUI() promise: none/pending/granted/denied
    cameraStarted,  \* camera.start(true) was called (line 52)
    deniedUI,       \* permissionDeniedUI() was shown (line 53)
    visBound,       \* onVisible/onNotVisible handlers are bound (125-126)
    visible,        \* faceTrackerGroup.visible
    lastVis,        \* last visibility event delivered to a handler
    prevVis,        \* the one before it
    drawSince,      \* a scene draw happened since the last visibility event
    visGap,         \* a scene draw happened between prevVis and lastVis
    tickPc,         \* position inside render(): idle/update/deform/draw/raf
    tickLog,        \* the calls render() has made in the current tick
    rafPending,     \* a requestAnimationFrame(render) callback is pending
    ticks,          \* number of render() calls so far
    renderThrew,    \* a render() call ended by an exception
    recProm,        \* createCanvasVideoRecorder promise: none/pending/ready/rejected
    recording,      \* the `recording` flag of initRecorder (line 135)
    label,          \* placeButton.innerText
    libRecording,   \* the recorder has a session in progress
    pendingStart,   \* onStart callbacks the recorder has queued
    pendingComplete,\* onComplete callbacks the recorder has queued
    exportsPending, \* onComplete handlers suspended at await result.asDataURL()
    clicks,         \* clicks delivered to the button
    startCalls,     \* recorder.start() calls
    stopCalls,      \* recorder.stop() calls
    sessionsDone,   \* recording sessions started and then stopped
    onStartFired,   \* onStart handler runs
    onCompleteFired,\* onComplete handler runs
    lastSample,     \* what the recorder's last canvas sample saw
    canvasSize,     \* the size given to renderer.setSize (lines 39-42)
    trackedLandmarks, \* the face data faceTrackerGroup holds (set by updateFrame)
    prevLandmarks,  \* the face data it held in the tick before
    geometry        \* the vertex positions of faceBufferGeometry

mainVars == <<incompatible, incompatUI, mainPc>>
permVars == <<perm, cameraStarted, deniedUI>>
visVars == <<visBound, visible, lastVis, prevVis, drawSince, visGap>>
renderVars == <<tickPc, tickLog, rafPending, ticks, renderThrew>>
recVars == <<recProm, recording, label, libRecording, pendingStart,
             pendingComplete, exportsPending, clicks, startCalls, stopCalls,
             sessionsDone, onStartFired, onCompleteFired, lastSample>>
meshVars == <<trackedLandmarks, prevLandmarks, geometry>>
vars == <<mainVars, permVars, visVars, renderVars, recVars, canvasSize,
         meshVars>>

\* Bounds of the model.
MaxTicks == 2
MaxClicks == 3

\* The landmark sets the model tells apart; 0 is the default (zero) set the
\* tracker and the geometry hold before any face was tracked.
Landmarks == {0, 1}

\* The window sizes the model tells apart; the page opens with the first.
WindowSizes == {"opened", "resized"}

----------------------------------------------------------------------------
\* The thread.

\* render() (lines 167-181) has no await: once entered it keeps the thread
\* until it returns or throws.
RenderHoldsThreadAwaitBeforeDraw(pc) == pc \notin {"idle", "draw"}
RenderHoldsThread(pc) == pc # "idle"

\* No task is on the stack: the top-level script has ended and render() is
\* not running.  Only then the event loop starts another callback.
ThreadIdle == mainPc \in {"done", "aborted"} /\ ~RenderHoldsThread(tickPc)

\* Between the start of camera.updateFrame and the end of renderer.render.
InTick == tickPc \in {"update", "deform", "draw"}

----------------------------------------------------------------------------
\* Initial state: the page is loaded, the script has not run yet.  The only
\* input fixed from the start is whether the browser is compatible.
\* faceTrackerGroup is a THREE.Group, created visible; the assignment
\* `faceTrackerGroup.visible = false` of line 72 is commented out.
Init ==
    /\ incompatible \in BOOLEAN
    /\ incompatUI = FALSE
    /\ mainPc = "check"
    /\ perm = "none"
    /\ cameraStarted = FALSE
    /\ deniedUI = FALSE
    /\ visBound = FALSE
    /\ visible = TRUE
    /\ lastVis = "none"
    /\ prevVis = "none"
    /\ drawSince = FALSE
    /\ visGap = FALSE
    /\ tickPc = "idle"
    /\ tickLog = << >>
    /\ rafPending = 0
    /\ ticks = 0
    /\ renderThrew = FALSE
    /\ recProm = "none"
    /\ recording = FALSE
    /\ label = "initial"
    /\ libRecording = FALSE
    /\ pendingStart = 0
    /\ pendingComplete = 0
    /\ exportsPending = 0
    /\ clicks = 0
    /\ startCalls = 0
    /\ stopCalls = 0
    /\ sessionsDone = 0
    /\ onStartFired = 0
    /\ onCompleteFired = 0
    /\ lastSample = "none"
    /\ canvasSize = "opened"
    /\ trackedLandmarks = 0
    /\ prevLandmarks = 0
    /\ geometry = 0

----------------------------------------------------------------------------
\* The top-level script (lines 17-184), in source order.

\* Where the script goes after browserIncompatibleUI(): line 25 throws, so
\* nothing below it runs.
AfterIncompatibleUINoThrow == "permission"
AfterIncompatibleUI == "aborted"

\* Lines 17-26.
MainCheck ==
    /\ mainPc = "check"
    /\ IF incompatible
          THEN /\ incompatUI' = TRUE
               /\ mainPc' = AfterIncompatibleUI
          ELSE /\ incompatUI' = incompatUI
               /\ mainPc' = "permission"
    /\ UNCHANGED <<canvasSize, meshVars, incompatible, permVars, visVars,
                   renderVars, recVars>>

\* Line 49: permissionRequestUI() is called; its .then callback runs later.
MainPermission ==
    /\ mainPc = "permission"
    /\ perm' = "pending"
    /\ mainPc' = "bind"
    /\ UNCHANGED <<canvasSize, meshVars, incompatible, incompatUI,
                   cameraStarted, deniedUI, visVars,
                   renderVars, recVars>>

\* Lines 125-126: the two visibility handlers are bound.
MainBindVisibility ==
    /\ mainPc = "bind"
    /\ visBound' = TRUE
    /\ mainPc' = "initRecorder"
    /\ UNCHANGED <<canvasSize, meshVars, incompatible, incompatUI, permVars,
                   visible, lastVis,
                   prevVis, drawSince, visGap, renderVars, recVars>>

\* Line 164: initRecorder() runs up to its await (line 134) and returns.
MainInitRecorder ==
    /\ mainPc = "initRecorder"
    /\ recProm' = "pending"
    /\ mainPc' = "render"
    /\ UNCHANGED <<canvasSize, meshVars, incompatible, incompatUI, permVars,
                   visVars, renderVars,
                   recording, label, libRecording, pendingStart,
                   pendingComplete, exportsPending, clicks, startCalls,
                   stopCalls, sessionsDone, onStartFired, onCompleteFired,
                   lastSample>>

\* Line 184: the script calls render() itself; the first tick runs inside
\* the script, which ends when that call returns or throws.
MainRender ==
    /\ mainPc = "render"
    /\ mainPc' = "inRender"
    /\ tickPc' = "update"
    /\ tickLog' = <<"updateFrame">>
    /\ ticks' = ticks + 1
    /\ UNCHANGED <<canvasSize, meshVars, incompatible, incompatUI, permVars,
                   visVars, rafPending,
                   renderThrew, recVars>>

----------------------------------------------------------------------------
\* The permission promise (lines 49-54).

\* Line 52: the camera is started only if the permission was granted.
StartsCameraAlways(granted) == TRUE
StartsCamera(granted) == granted

PermissionResolve ==
    /\ perm = "pending"
    /\ ThreadIdle
    /\ \E granted \in BOOLEAN :
          /\ perm' = IF granted THEN "granted" ELSE "denied"
          /\ cameraStarted' = StartsCamera(granted)
          /\ deniedUI' = ~granted
    /\ UNCHANGED <<canvasSize, meshVars, mainVars, visVars, renderVars,
                   recVars>>

----------------------------------------------------------------------------
\* render() (lines 167-181).

\* The statement render() reaches after the one at pc (source order).
RenderNextDrawFirst(pc) ==
    CASE pc = "update" -> "draw"
      [] pc = "draw" -> "deform"
      [] pc = "deform" -> "raf"
      [] OTHER -> "idle"
RenderNext(pc) ==
    CASE pc = "update" -> "deform"
      [] pc = "deform" -> "draw"
      [] pc = "draw" -> "raf"
      [] OTHER -> "idle"

\* The top-level script ends when its render() call ends.
MainAfterRender == IF mainPc = "inRender" THEN "done" ELSE mainPc

\* The pending requestAnimationFrame callback fires: render() is entered
\* and calls camera.updateFrame (line 169).
RenderBegin ==
    /\ ThreadIdle
    /\ rafPending > 0
    /\ ticks < MaxTicks
    /\ rafPending' = rafPending - 1
    /\ tickPc' = "update"
    /\ tickLog' = <<"updateFrame">>
    /\ ticks' = ticks + 1
    /\ UNCHANGED <<canvasSize, meshVars, mainVars, permVars, visVars,
                   renderThrew, recVars>>

\* camera.updateFrame returns (line 169).  It has made the tracker's latest
\* sample current (comment of lines 171-172): a new one, or the one of the
\* tick before when the tracker has published nothing since.
CameraUpdateFrameReturn ==
    /\ tickPc = "update"
    /\ tickPc' = RenderNext("update")
    /\ \E lm \in Landmarks : trackedLandmarks' = lm
    /\ prevLandmarks' = trackedLandmarks
    /\ UNCHANGED <<canvasSize, geometry, mainVars, permVars, visVars, tickLog,
                   rafPending, ticks, renderThrew, recVars>>

\* The positions updateFromFaceAnchorGroup (line 173) leaves in the
\* geometry: those of the group's current face data, whatever was there
\* and whether or not the group is visible (the call is unconditional).
GeometryAfterSkipHidden(g, lm) == IF visible THEN lm ELSE g
GeometryAfter(g, lm) == lm

\* Line 173: faceBufferGeometry.updateFromFaceAnchorGroup.  If it throws,
\* nothing catches it: render() is left, lines 177 and 180 do not run.
RenderDeform ==
    /\ tickPc = "deform"
    /\ tickLog' = Append(tickLog, "updateGeometry")
    /\ \E throws \in BOOLEAN :
          IF throws
             THEN /\ tickPc' = "idle"
                  /\ renderThrew' = TRUE
                  /\ mainPc' = MainAfterRender
                  /\ geometry' = geometry
             ELSE /\ tickPc' = RenderNext("deform")
                  /\ UNCHANGED <<renderThrew, mainPc>>
                  /\ geometry' = GeometryAfter(geometry, trackedLandmarks)
    /\ UNCHANGED <<canvasSize, trackedLandmarks, prevLandmarks, incompatible,
                   incompatUI, permVars, visVars, rafPending,
                   ticks, recVars>>

\* Line 177: renderer.render(scene, camera).
RenderDraw ==
    /\ tickPc = "draw"
    /\ tickLog' = Append(tickLog, "draw")
    /\ drawSince' = TRUE
    /\ tickPc' = RenderNext("draw")
    /\ UNCHANGED <<canvasSize, meshVars, mainVars, permVars, visBound,
                   visible, lastVis, prevVis,
                   visGap, rafPending, ticks, renderThrew, recVars>>

\* Line 180: requestAnimationFrame(render), then render() returns.
RenderRequestFrame ==
    /\ tickPc = "raf"
    /\ tickLog' = Append(tickLog, "raf")
    /\ rafPending' = rafPending + 1
    /\ tickPc' = "idle"
    /\ mainPc' = MainAfterRender
    /\ UNCHANGED <<canvasSize, meshVars, incompatible, incompatUI, permVars,
                   visVars, ticks,
                   renderThrew, recVars>>

----------------------------------------------------------------------------
\* The visibility handlers (lines 124-126).

\* The value the handler bound to the event ev writes to
\* faceTrackerGroup.visible.
VisibleAfterStuck(ev) == TRUE
VisibleAfter(ev) == ev = "visible"

\* The tracker emits an event and the bound handler runs.  The tracker is
\* advanced by camera.updateFrame (comment of lines 171-172), so it emits
\* inside that call; an emission from a task of its own is allowed too.
VisibilityEvent ==
    /\ visBound
    /\ ThreadIdle \/ tickPc = "update"
    /\ \E ev \in {"visible", "notVisible"} :
          /\ visible' = VisibleAfter(ev)
          /\ lastVis' = ev
    /\ prevVis' = lastVis
    /\ visGap' = drawSince
    /\ drawSince' = FALSE
    /\ UNCHANGED <<canvasSize, meshVars, mainVars, permVars, visBound,
                   renderVars, recVars>>

----------------------------------------------------------------------------
\* The recorder toggle (initRecorder, lines 131-162).

recCounters == <<clicks, startCalls, stopCalls, sessionsDone, onStartFired,
                 onCompleteFired>>

\* Line 134 resumes: createCanvasVideoRecorder resolved.  Lines 135-161 set
\* the flag and bind the two recorder handlers and the click listener.
InitRecorderResume ==
    /\ recProm = "pending"
    /\ ThreadIdle
    /\ recProm' = "ready"
    /\ recording' = FALSE
    /\ UNCHANGED <<canvasSize, meshVars, mainVars, permVars, visVars,
                   renderVars, label,
                   libRecording, pendingStart, pendingComplete, exportsPending,
                   recCounters, lastSample>>

\* createCanvasVideoRecorder rejected: initRecorder() ends at line 134 and
\* nothing is bound.
InitRecorderReject ==
    /\ recProm = "pending"
    /\ ThreadIdle
    /\ recProm' = "rejected"
    /\ UNCHANGED <<canvasSize, meshVars, mainVars, permVars, visVars,
                   renderVars, recording, label,
                   libRecording, pendingStart, pendingComplete, exportsPending,
                   recCounters, lastSample>>

\* recorder.start() (line 159).  With no session in progress the recorder
\* starts one and queues onStart.  What it does with a start() during a
\* session is the library's choice: it ignores the call or queues another
\* onStart (dup).
RecorderStart(dup) ==
    /\ startCalls' = startCalls + 1
    /\ libRecording' = TRUE
    /\ pendingStart' = IF ~libRecording \/ dup THEN pendingStart + 1
                                               ELSE pendingStart
    /\ UNCHANGED <<stopCalls, sessionsDone, pendingComplete>>

\* recorder.stop() (line 157).  With a session in progress the recorder
\* ends it and queues onComplete.  What it does with a stop() while idle is
\* the library's choice: it ignores the call or queues another onComplete.
RecorderStop(dup) ==
    /\ stopCalls' = stopCalls + 1
    /\ libRecording' = FALSE
    /\ sessionsDone' = IF libRecording THEN sessionsDone + 1 ELSE sessionsDone
    /\ pendingComplete' = IF libRecording \/ dup THEN pendingComplete + 1
                                                 ELSE pendingComplete
    /\ UNCHANGED <<startCalls, pendingStart>>

\* The click listener exists once line 155 has run, which is after the
\* await of line 134: only when createCanvasVideoRecorder has resolved.
ListenerBoundBeforeAwait == recProm \in {"pending", "ready"}
ListenerBound == recProm = "ready"

\* The branch the click listener takes (line 156).
ClickStops(flag) == flag

\* The click listener (lines 155-161).
ClickHandler ==
    /\ ListenerBound
    /\ ThreadIdle
    /\ clicks < MaxClicks
    /\ clicks' = clicks + 1
    /\ \E dup \in BOOLEAN :
          IF ClickStops(recording) THEN RecorderStop(dup)
                                   ELSE RecorderStart(dup)
    /\ UNCHANGED <<canvasSize, meshVars, mainVars, permVars, visVars,
                   renderVars, recProm,
                   recording, label, exportsPending, onStartFired,
                   onCompleteFired, lastSample>>

\* A click while no listener is bound (line 155 has not run).
ClickUnbound ==
    /\ ~ListenerBound
    /\ ThreadIdle
    /\ clicks < MaxClicks
    /\ clicks' = clicks + 1
    /\ UNCHANGED <<canvasSize, meshVars, mainVars, permVars, visVars,
                   renderVars, recProm,
                   recording, label, libRecording, pendingStart,
                   pendingComplete, exportsPending, startCalls, stopCalls,
                   sessionsDone, onStartFired, onCompleteFired, lastSample>>

\* The onStart handler (lines 138-141).
OnStart ==
    /\ pendingStart > 0
    /\ ThreadIdle
    /\ pendingStart' = pendingStart - 1
    /\ onStartFired' = onStartFired + 1
    /\ recording' = TRUE
    /\ label' = "TAP TO STOP RECORDING"
    /\ UNCHANGED <<canvasSize, meshVars, mainVars, permVars, visVars,
                   renderVars, recProm,
                   libRecording, pendingComplete, exportsPending, clicks,
                   startCalls, stopCalls, sessionsDone, onCompleteFired,
                   lastSample>>

\* The onComplete handler up to its await (lines 144-148): it sets the
\* label, calls result.asDataURL() and gives the thread back.
OnCompletePausesRendering ==
    /\ pendingComplete > 0
    /\ ThreadIdle
    /\ pendingComplete' = pendingComplete - 1
    /\ onCompleteFired' = onCompleteFired + 1
    /\ label' = "TAP TO START RECORDING"
    /\ exportsPending' = exportsPending + 1
    /\ rafPending' = 0
    /\ UNCHANGED <<canvasSize, meshVars, mainVars, permVars, visVars, tickPc,
                   tickLog, ticks,
                   renderThrew, recProm, recording, libRecording,
                   pendingStart, clicks, startCalls, stopCalls, sessionsDone,
                   onStartFired, lastSample>>
OnComplete ==
    /\ pendingComplete > 0
    /\ ThreadIdle
    /\ pendingComplete' = pendingComplete - 1
    /\ onCompleteFired' = onCompleteFired + 1
    /\ label' = "TAP TO START RECORDING"
    /\ exportsPending' = exportsPending + 1
    /\ UNCHANGED <<canvasSize, meshVars, mainVars, permVars, visVars,
                   renderVars, recProm,
                   recording, libRecording, pendingStart, clicks, startCalls,
                   stopCalls, sessionsDone, onStartFired, lastSample>>

\* The onComplete handler resumes after asDataURL() resolved (lines
\* 147-151): WebGlSnapshot is called and, unless it throws, the flag is
\* reset.
OnCompleteResume ==
    /\ exportsPending > 0
    /\ ThreadIdle
    /\ exportsPending' = exportsPending - 1
    /\ \E throws \in BOOLEAN :
          recording' = IF throws THEN recording ELSE FALSE
    /\ UNCHANGED <<canvasSize, meshVars, mainVars, permVars, visVars,
                   renderVars, recProm, label,
                   libRecording, pendingStart, pendingComplete, recCounters,
                   lastSample>>

\* asDataURL() rejected: the handler ends at line 148, line 151 never runs.
OnCompleteExportFails ==
    /\ exportsPending > 0
    /\ ThreadIdle
    /\ exportsPending' = exportsPending - 1
    /\ UNCHANGED <<canvasSize, meshVars, mainVars, permVars, visVars,
                   renderVars, recProm,
                   recording, label, libRecording, pendingStart,
                   pendingComplete, recCounters, lastSample>>

\* While a session is in progress the recorder reads the canvas it was
\* given (line 134), from a task of its own.
RecorderSample ==
    /\ libRecording
    /\ ThreadIdle
    /\ lastSample' = IF InTick THEN "partial" ELSE "complete"
    /\ UNCHANGED <<canvasSize, meshVars, mainVars, permVars, visVars,
                   renderVars, recProm,
                   recording, label, libRecording, pendingStart,
                   pendingComplete, exportsPending, recCounters>>

----------------------------------------------------------------------------
\* The resize listener (lines 40-42), registered before the permission
\* request: the canvas takes the window's size.
ResizeRestartsLoop ==
    /\ mainPc = "done"
    /\ ThreadIdle
    /\ \E w \in WindowSizes : canvasSize' = w
    /\ rafPending' = rafPending + 1
    /\ UNCHANGED <<mainVars, permVars, visVars, tickPc, tickLog, ticks,
                   renderThrew, recVars, meshVars>>
Resize ==
    /\ mainPc = "done"
    /\ ThreadIdle
    /\ \E w \in WindowSizes : canvasSize' = w
    /\ UNCHANGED <<mainVars, permVars, visVars, renderVars, recVars,
                   meshVars>>

----------------------------------------------------------------------------
MainStep ==
    \/ MainCheck
    \/ MainPermission
    \/ MainBindVisibility
    \/ MainInitRecorder
    \/ MainRender

RenderStep ==
    \/ RenderBegin
    \/ CameraUpdateFrameReturn
    \/ RenderDeform
    \/ RenderDraw
    \/ RenderRequestFrame

RecorderStep ==
    \/ InitRecorderResume
    \/ InitRecorderReject
    \/ ClickHandler
    \/ ClickUnbound
    \/ OnStart
    \/ OnComplete
    \/ OnCompleteResume
    \/ OnCompleteExportFails
    \/ RecorderSample

Next ==
    \/ MainStep
    \/ RenderStep
    \/ PermissionResolve
    \/ VisibilityEvent
    \/ RecorderStep
    \/ Resize

Spec == Init /\ [][Next]_vars

----------------------------------------------------------------------------
\* Properties.

\* The calls of one complete tick, in source order (lines 169-180).
TickOrder == <<"updateFrame", "updateGeometry", "draw", "raf">>

IsPrefix(s, t) ==
    /\ Len(s) <= Len(t)
    /\ \A i \in 1..Len(s) : s[i] = t[i]

\* C1: in every tick the calls camera.updateFrame, updateFromFaceAnchorGroup,
\* renderer.render and requestAnimationFrame are made in this order and at
\* most once each: what a tick has called so far is always a prefix of that
\* sequence, so no tick draws before its deformation, deforms before its
\* camera update or requests the next tick before its draw, and a tick that
\* requested the next tick made each of the three calls exactly once.
C1_TickOrder == IsPrefix(tickLog, TickOrder)

\* A tick started by the animation-frame callback ran to its end.
C1_Witness == ticks >= 2 /\ tickPc = "idle" /\ tickLog = TickOrder

\* C2 (as claimed): as long as no stop was requested, at most one
\* recorder.start() is issued and at most one onStart is fired or queued,
\* however many clicks arrive.
C2_SingleStart ==
    stopCalls = 0 => (startCalls <= 1 /\ onStartFired + pendingStart <= 1)

\* C3 (as claimed): recorder.stop() is issued only to end a session in
\* progress, and the onComplete firings (run or queued) are as many as the
\* sessions that were started and stopped.
C3_StopWhenIdleNoOp ==
    /\ stopCalls = sessionsDone
    /\ onCompleteFired + pendingComplete = sessionsDone

\* C4 (as claimed): two clicks handled before any recorder callback has run
\* make one recorder.start() and one recorder.stop().
C4_StrictToggle ==
    (startCalls + stopCalls = 2 /\ onStartFired = 0 /\ onCompleteFired = 0)
        => (startCalls = 1 /\ stopCalls = 1)

\* C5 (as claimed): when the permission was denied, render() was never
\* called.
C5_NoTickWhenDenied == perm = "denied" => ticks = 0

\* C5 (amended): when the permission was denied, camera.start was not
\* called and the permission-denied UI was shown; render() had already been
\* called by then, the loop does not depend on the answer.
C5_DeniedNoCamera ==
    perm = "denied" => (~cameraStarted /\ deniedUI /\ ticks >= 1)

\* The permission was denied and the loop went on ticking.
C5_Witness ==
    perm = "denied" /\ ~cameraStarted /\ ticks >= 2 /\ rafPending > 0

\* C6: with an incompatible browser the script stops at its check: the
\* incompatibility UI is shown by the time it has stopped, and no permission
\* request, camera start, visibility binding, recorder initialisation,
\* recorder call or render tick ever happens.
C6_IncompatibleAborts ==
    incompatible =>
        /\ mainPc \in {"check", "aborted"}
        /\ mainPc = "aborted" => incompatUI
        /\ perm = "none" /\ ~cameraStarted /\ ~deniedUI
        /\ ~visBound
        /\ recProm = "none" /\ startCalls = 0 /\ stopCalls = 0
        /\ ticks = 0 /\ rafPending = 0 /\ tickPc = "idle"

\* The script has aborted and a later click found no listener.
C6_Witness ==
    incompatible /\ mainPc = "aborted" /\ incompatUI /\ clicks > 0

\* C7 (as claimed): after a geometry update has failed in some tick, the
\* loop is still scheduled: once that render() call has ended, a next-tick
\* callback is pending.
C7_LoopSurvivesGeometryFailure ==
    (renderThrew /\ tickPc = "idle") => rafPending > 0

\* C8: no step of the recorder toggle (recorder initialisation, a click,
\* onStart, onComplete and its resumption, a failed export, a canvas sample)
\* changes the state of the render loop (its position, its calls, the
\* pending next-tick callback, the tick count) or holds the thread the loop
\* runs on.
C8_RecorderLeavesLoopAlone ==
    [][RecorderStep => UNCHANGED <<renderVars, mainPc>>]_vars

\* A tick runs while an export that was started earlier is still unfinished.
C8_Witness == exportsPending > 0 /\ ticks >= 2 /\ tickPc = "draw"

\* C9 (as claimed): between the start of camera.updateFrame and the end of
\* renderer.render only render() itself takes steps.
C9_TickAtomic == [][InTick => RenderStep]_vars

\* C9 (amended): between the start of camera.updateFrame and the end of
\* renderer.render no click handler, recorder callback or recorder sample
\* runs; a visibility handler runs there only inside camera.updateFrame,
\* never between the deformation and the draw.
C9_TickAtomicButVisibility ==
    [][InTick => (RenderStep \/ (tickPc = "update" /\ VisibilityEvent))]_vars

\* A tick is between deformation and draw while a recorder callback is
\* queued and a session is being sampled.
C9_Witness == tickPc = "draw" /\ pendingStart > 0 /\ libRecording

\* C10: faceTrackerGroup.visible is the value of the last visibility event
\* delivered: true after onVisible, false after onNotVisible.
C10_VisibleMatchesLastEvent ==
    /\ lastVis = "visible" => visible
    /\ lastVis = "notVisible" => ~visible

\* onNotVisible was followed by onVisible with no draw in between.
C10_Witness ==
    prevVis = "notVisible" /\ lastVis = "visible" /\ ~visGap /\ visible

\* C11 (as claimed): once faceTrackerGroup exists and its handlers are
\* bound, it is hidden in every state in which the tracker's last report is
\* not "visible" (no report yet included).
C11_HiddenUnlessFaceVisible ==
    (visBound /\ lastVis # "visible") => ~visible

\* C15 (as claimed): once a recorder callback has run, in every state in
\* which a click can be handled the label names what the click does: "TAP
\* TO START RECORDING" only while the flag is false (the click calls
\* recorder.start()), "TAP TO STOP RECORDING" only while it is true.
C15_LabelTellsNextClick ==
    (recProm = "ready" /\ ThreadIdle /\ onStartFired + onCompleteFired > 0) =>
        /\ label = "TAP TO START RECORDING" => ~ClickStops(recording)
        /\ label = "TAP TO STOP RECORDING" => ClickStops(recording)

\* C16 (as claimed): after one session was started and completed, once the
\* onComplete handler has ended (it no longer waits for the data URL) the
\* flag is false again, so that the next click starts a recording.
C16_ToggleRecovers ==
    (onStartFired = 1 /\ pendingStart = 0 /\ onCompleteFired = 1
        /\ pendingComplete = 0 /\ exportsPending = 0) => ~recording

\* C17: the recorder's initialisation and the render loop do not wait for
\* each other.  createCanvasVideoRecorder resolves only after the first
\* render() call was made; as long as it has not resolved (pending for ever
\* or rejected) no recorder.start() or recorder.stop() was called and
\* clicks have changed nothing of the recorder's state; and the loop goes
\* on: unless a render() call threw, a tick is running or the next one is
\* pending.
C17_RecorderInitIndependent ==
    /\ recProm \in {"ready", "rejected"} => ticks >= 1
    /\ recProm # "ready" =>
          /\ startCalls = 0 /\ stopCalls = 0
          /\ ~recording /\ label = "initial" /\ ~libRecording
          /\ pendingStart = 0 /\ pendingComplete = 0 /\ exportsPending = 0
    /\ (recProm \in {"pending", "rejected"} /\ mainPc = "done"
            /\ ~renderThrew /\ tickPc = "idle") => rafPending = 1

\* The recorder promise is still unresolved, clicks have arrived, and a
\* later tick is drawing.
C17_Witness ==
    recProm = "pending" /\ clicks > 0 /\ ticks >= 2 /\ tickPc = "draw"

\* The render-loop chains alive: the render() call in progress and the
\* next-tick callbacks pending.
Chains == rafPending + (IF tickPc = "idle" THEN 0 ELSE 1)

\* C13: there is one render-loop chain.  At every moment at most one
\* next-tick callback is pending, and none while render() runs, so no
\* refresh runs render() twice; before the script calls render() there is
\* no chain, and from then on, whatever clicks, recorder callbacks,
\* visibility events, resizes and the permission result arrive, there is
\* exactly one: each tick that returns has scheduled exactly one successor
\* (a tick that throws schedules none, C7).
C13_OneRenderChain ==
    /\ Chains <= 1
    /\ ticks = 0 => Chains = 0
    /\ (ticks >= 1 /\ ~renderThrew) => Chains = 1

\* After a resize, clicks and the permission result, one callback is
\* pending.
C13_Witness ==
    /\ canvasSize = "resized" /\ clicks > 0 /\ perm # "pending"
    /\ ticks >= 2 /\ rafPending = 1 /\ tickPc = "idle"

\* C12: the geometry renderer.render draws in a tick holds the landmarks
\* that tick's camera.updateFrame made current, also when they differ from
\* those of the tick before: a new sample is drawn in the tick that
\* receives it, not one tick later.
C12_DrawUsesThisTicksLandmarks ==
    [][(tickPc = "draw" /\ tickPc' # "draw") =>
          geometry = trackedLandmarks]_vars

\* A later tick received a new sample and has drawn it.
C12_Witness ==
    /\ ticks >= 2 /\ tickPc = "raf"
    /\ trackedLandmarks # prevLandmarks /\ geometry = trackedLandmarks

====
